---- MODULE Spec2Model ----
(***************************************************************************)
(* Model of node/resolvers/search/utils.ts: category resolution.           *)
(*                                                                         *)
(*   searchContextGetCategory / getIdFromTree  -> specification Spec       *)
(*   findCategoryInTree                        -> specification SpecFind   *)
(*   buildCategoryMap / appendToMap            -> specification SpecIndex  *)
(*                                                                         *)
(* Strings are sequences of one-character strings, so that toLowerCase,    *)
(* toUpperCase, split, endsWith and join are computed rather than assumed. *)
(* An optional field of CategoryArgs that is undefined is a field that is  *)
(* not in the domain of the record.                                        *)
(***************************************************************************)
EXTENDS Integers, Sequences, FiniteSets, TLC

VARIABLES
    args,         \* CategoryArgs passed to searchContextGetCategory
    isVtex,       \* mode flag
    pc,           \* position of the running call
    url,          \* slug path sent to search.pageType
    settled,      \* how the promise of search.pageType(url) settled, raw
    pageType,     \* const pageType after `.catch(() => null)`
    fetched,      \* how the promise of search.categories(3) settled
    lookupArgs,   \* <<>> or <<a>>: the args getIdFromTree was called with
    pending,      \* external calls issued and not yet settled
    calls,        \* history of external calls and logger events, in order
    result,       \* what the call returned or threw
    tree,         \* input of findCategoryInTree / buildCategoryMap
    values,       \* slug path given to findCategoryInTree
    found,        \* return value of findCategoryInTree
    categoryMap   \* return value of buildCategoryMap

vars == <<args, isVtex, pc, url, settled, pageType, fetched, lookupArgs,
          pending, calls, result, tree, values, found, categoryMap>>

(***************************************************************************)
(* Bounds                                                                  *)
(***************************************************************************)
MaxNodes == 3
MaxPathLen == 2
MaxId == 2

(***************************************************************************)
(* Values                                                                  *)
(***************************************************************************)
Null == [null |-> TRUE]
Undefined == [undefined |-> TRUE]
Unsettled == [state |-> "pending"]
NotReturned == [state |-> "running"]

Max(S) == CHOOSE m \in S : \A n \in S : n <= m

(***************************************************************************)
(* String primitives                                                       *)
(***************************************************************************)
LowerChar(c) ==
    CASE c = "A" -> "a"
      [] c = "B" -> "b"
      [] OTHER -> c

UpperChar(c) ==
    CASE c = "a" -> "A"
      [] c = "b" -> "B"
      [] OTHER -> c

toLower(s) == [i \in 1..Len(s) |-> LowerChar(s[i])]

toUpperCase(s) == [i \in 1..Len(s) |-> UpperChar(s[i])]

endsWith(s, suffix) ==
    /\ Len(suffix) <= Len(s)
    /\ SubSeq(s, Len(s) - Len(suffix) + 1, Len(s)) = suffix

lastSegment(s) ==
    LET slashes == {i \in 1..Len(s) : s[i] = "/"}
    IN  IF slashes = {} THEN s
        ELSE SubSeq(s, Max(slashes) + 1, Len(s))

\* ../../utils/slug: the search API's slug replaces a special character by a dash
searchSlugify(s) == [i \in 1..Len(s) |-> IF s[i] = "." THEN "-" ELSE s[i]]

\* ../../utils/slug: the generic slug removes a special character
Slugify(s) == SelectSeq(s, LAMBDA c : c # ".")

RECURSIVE join(_, _)
join(parts, sep) ==
    IF parts = <<>> THEN <<>>
    ELSE IF Len(parts) = 1 THEN parts[1]
    ELSE parts[1] \o sep \o join(Tail(parts), sep)

(***************************************************************************)
(* Category trees                                                          *)
(***************************************************************************)
\* Forests of exactly n nodes and at most d levels.  With ids = {} the nodes
\* are numbered in pre-order from base (identifiers unique in a snapshot);
\* otherwise every node draws its identifier from ids.
RECURSIVE Forests(_, _, _, _, _)
Forests(n, d, base, urls, ids) ==
    IF n = 0 THEN {<<>>}
    ELSE IF d = 0 THEN {}
    ELSE UNION {
        { <<[id |-> i, url |-> u, children |-> cs]>> \o rest :
            i \in (IF ids = {} THEN {base} ELSE ids),
            u \in urls,
            cs \in Forests(k, d - 1, base + 1, urls, ids),
            rest \in Forests(n - 1 - k, d, base + 1 + k, urls, ids) }
        : k \in 0..(n - 1) }

ForestsUpTo(n, d, urls, ids) == UNION { Forests(m, d, 1, urls, ids) : m \in 0..n }

(***************************************************************************)
(* findCategoryInTree                                                      *)
(***************************************************************************)
SlugMatches_caseSensitive(slug, value) == slug = value

SlugMatches(slug, value) == toUpperCase(slug) = toUpperCase(value)

\* Array.prototype.find and the `for ... of` scan stop at the first hit
FirstIndex(hits) ==
    IF hits = {} THEN 0 ELSE CHOOSE i \in hits : \A j \in hits : i <= j

RECURSIVE findCategoryInTree(_, _, _)
findCategoryInTree(t, vals, index) ==
    LET Hit(node) == SlugMatches(lastSegment(node.url), vals[index + 1])
        i == FirstIndex({k \in 1..Len(t) : Hit(t[k])})
    IN  IF i = 0 THEN Null
        ELSE IF index = Len(vals) - 1 THEN t[i]
        ELSE findCategoryInTree(t[i].children, vals, index + 1)

(***************************************************************************)
(* buildCategoryMap                                                        *)
(***************************************************************************)
Assign_keepFirst(map, key, value) ==
    [k \in DOMAIN map \cup {key} |-> IF k \in DOMAIN map THEN map[k] ELSE value]

\* mapCategories[category.id] = category
Assign(map, key, value) ==
    [k \in DOMAIN map \cup {key} |-> IF k = key THEN value ELSE map[k]]

RECURSIVE reduceAppendToMap(_, _)
RECURSIVE appendToMap(_, _)
appendToMap(mapCategories, category) ==
    reduceAppendToMap(category.children,
                      Assign(mapCategories, category.id, category))

reduceAppendToMap(list, acc) ==
    IF list = <<>> THEN acc
    ELSE reduceAppendToMap(Tail(list), appendToMap(acc, Head(list)))

EmptyMap == [k \in {} |-> Null]

buildCategoryMap(categoryTree) == reduceAppendToMap(categoryTree, EmptyMap)

(***************************************************************************)
(* getIdFromTree                                                           *)
(***************************************************************************)
TreeLevels == 3

\* `!x` on an optional string: undefined and '' are both falsy
Truthy(a, field) == field \in DOMAIN a /\ a[field] # <<>>

compareGenericSlug(a, entity, u) ==
    IF ~Truthy(a, entity) THEN FALSE
    ELSE \/ endsWith(u, <<"/">> \o toLower(searchSlugify(a[entity])))
         \/ endsWith(u, <<"/">> \o toLower(Slugify(a[entity])))

find(seq, hits) ==
    LET i == FirstIndex(hits)
    IN  IF i = 0 THEN Undefined ELSE seq[i]

\* the part of getIdFromTree that runs once search.categories(3) has resolved
getIdFromTree_found(a, deps) ==
    LET IsDepartment(n) == compareGenericSlug(a, "department", n.url)
        IsCategory(n) == compareGenericSlug(a, "category", n.url)
        IsSubcategory(n) == compareGenericSlug(a, "subcategory", n.url)
        f1 == find(deps, {i \in 1..Len(deps) : IsDepartment(deps[i])})
        f2 == IF Truthy(a, "category") /\ f1 # Undefined
              THEN find(f1.children,
                        {i \in 1..Len(f1.children) : IsCategory(f1.children[i])})
              ELSE f1
        f3 == IF Truthy(a, "subcategory") /\ f2 # Undefined
              THEN find(f2.children,
                        {i \in 1..Len(f2.children) : IsSubcategory(f2.children[i])})
              ELSE f2
    IN  IF f3 # Undefined THEN [id |-> f3.id] ELSE Null

\* getIdFromTree up to its await: issues search.categories(3) or returns null
getIdFromTree_enter(a, history) ==
    /\ lookupArgs' = <<a>>
    /\ IF Truthy(a, "department")
       THEN /\ pc' = "categories"
            /\ pending' = {"categories"}
            /\ calls' = Append(history, [op |-> "categories", levels |-> TreeLevels])
            /\ result' = result
       ELSE /\ pc' = "done"
            /\ pending' = {}
            /\ calls' = history
            /\ result' = Null

(***************************************************************************)
(* searchContextGetCategory                                                *)
(***************************************************************************)
typesPossible_noSubCategory == {"Department", "Category"}

typesPossible == {"Department", "Category", "SubCategory"}

GenericMode_never(v) == FALSE

GenericMode(v) == ~v

NoSegments_never(a) == FALSE

NoSegments(a) ==
    ~Truthy(a, "department") /\ ~Truthy(a, "category") /\ ~Truthy(a, "subcategory")

buildUrl(a) ==
    LET present == SelectSeq(<<"department", "category", "subcategory">>,
                             LAMBDA f : Truthy(a, f))
    IN  join([i \in 1..Len(present) |-> searchSlugify(a[present[i]])], <<"/">>)

Caught_rethrown(outcome) == outcome

\* .catch(() => null)
Caught(outcome) ==
    IF outcome.state = "rejected"
    THEN [state |-> "resolved", value |-> Null]
    ELSE outcome

ShouldLog_untrusted(pt) == pt # Null /\ pt.pageType \notin typesPossible

ShouldLog(pt) == pt = Null

FallsBack_onlyNull(pt) == pt = Null

FallsBack(pt) == pt = Null \/ pt.pageType \notin typesPossible

LogEvent(a, u) ==
    [op |-> "logger.info", name |-> "pagetype-category-error", args |-> a, url |-> u]

Call ==
    /\ pc = "start"
    /\ IF GenericMode(isVtex)
       THEN /\ getIdFromTree_enter(args, calls)
            /\ url' = url
       ELSE IF NoSegments(args)
       THEN /\ pc' = "done"
            /\ result' = Null
            /\ UNCHANGED <<url, pending, calls, lookupArgs>>
       ELSE /\ url' = buildUrl(args)
            /\ pc' = "pageType"
            /\ pending' = {"pageType"}
            /\ calls' = Append(calls, [op |-> "pageType", url |-> url'])
            /\ UNCHANGED <<result, lookupArgs>>
    /\ UNCHANGED <<args, isVtex, settled, pageType, fetched,
                   tree, values, found, categoryMap>>

\* the continuation of searchContextGetCategory after `await search.pageType(url)`
PageTypeSettles(outcome) ==
    /\ pc = "pageType"
    /\ settled' = outcome
    /\ LET c == Caught(outcome)
       IN  IF c.state = "rejected"
           THEN /\ pc' = "threw"
                /\ result' = [threw |-> c.error]
                /\ pending' = {}
                /\ UNCHANGED <<pageType, calls, lookupArgs>>
           ELSE /\ pageType' = c.value
                /\ LET logged == IF ShouldLog(c.value)
                                 THEN Append(calls, LogEvent(args, url))
                                 ELSE calls
                   IN  IF FallsBack(c.value)
                       THEN getIdFromTree_enter(args, logged)
                       ELSE /\ pc' = "done"
                            /\ result' = [id |-> c.value.id]
                            /\ pending' = {}
                            /\ calls' = logged
                            /\ UNCHANGED lookupArgs
    /\ UNCHANGED <<args, isVtex, url, fetched, tree, values, found, categoryMap>>

Labels == {"Brand", "Department", "Category", "SubCategory", "NotFound", "FullText", "Search"}

PageTypeIds == {99}

PageTypeResponses ==
    {Null} \cup {[id |-> i, pageType |-> l] : i \in PageTypeIds, l \in Labels}

Errors == {"ECONNRESET", "E503"}

PageTypeResolves ==
    \E r \in PageTypeResponses :
        PageTypeSettles([state |-> "resolved", value |-> r])

PageTypeRejects ==
    \E e \in Errors :
        PageTypeSettles([state |-> "rejected", error |-> e])

ResolveUrls == {<<"/", "a">>, <<"/", "A">>, <<"/", "a", "b">>, <<"/", "a", "-", "b">>}

CategoryTrees == ForestsUpTo(MaxNodes, TreeLevels, ResolveUrls, {})

\* the continuation of getIdFromTree after `await search.categories(3)`
CategoriesSettles(outcome) ==
    /\ pc = "categories"
    /\ fetched' = outcome
    /\ pending' = {}
    /\ IF outcome.state = "rejected"
       THEN /\ pc' = "threw"
            /\ result' = [threw |-> outcome.error]
       ELSE /\ pc' = "done"
            /\ result' = getIdFromTree_found(lookupArgs[1], outcome.value)
    /\ UNCHANGED <<args, isVtex, url, settled, pageType, lookupArgs, calls,
                   tree, values, found, categoryMap>>

CategoriesResolves ==
    \E t \in CategoryTrees :
        CategoriesSettles([state |-> "resolved", value |-> t])

CategoriesRejects ==
    \E e \in Errors :
        CategoriesSettles([state |-> "rejected", error |-> e])

ArgValues(field) ==
    CASE field = "department" -> {<<>>, <<"A">>, <<"a", ".", "b">>}
      [] field = "category" -> {<<"a">>, <<"a", ".", "b">>}
      [] field = "subcategory" -> {<<"a">>}

ArgFields == {"department", "category", "subcategory"}

ArgsSet ==
    UNION { {a \in [S -> UNION {ArgValues(f) : f \in ArgFields}] :
                \A f \in S : a[f] \in ArgValues(f)}
            : S \in SUBSET ArgFields }

Init ==
    /\ args \in ArgsSet
    /\ isVtex \in BOOLEAN
    /\ pc = "start"
    /\ url = <<>>
    /\ settled = Unsettled
    /\ pageType = Undefined
    /\ fetched = Unsettled
    /\ lookupArgs = <<>>
    /\ pending = {}
    /\ calls = <<>>
    /\ result = NotReturned
    /\ tree = <<>>
    /\ values = <<>>
    /\ found = Undefined
    /\ categoryMap = EmptyMap

Next ==
    \/ Call
    \/ PageTypeResolves
    \/ PageTypeRejects
    \/ CategoriesResolves
    \/ CategoriesRejects

Spec == Init /\ [][Next]_vars

(***************************************************************************)
(* Specification of findCategoryInTree as a one-step machine               *)
(***************************************************************************)
FindUrls == {<<"/", "a">>, <<"/", "A">>, <<"/", "a", "/", "b">>}

FindValues == {<<"a">>, <<"B">>}

RECURSIVE SeqsOfLen(_, _)
SeqsOfLen(S, n) ==
    IF n = 0 THEN {<<>>}
    ELSE {<<x>> \o rest : x \in S, rest \in SeqsOfLen(S, n - 1)}

Idle ==
    /\ args = <<>>
    /\ isVtex = FALSE
    /\ url = <<>>
    /\ settled = Unsettled
    /\ pageType = Undefined
    /\ fetched = Unsettled
    /\ lookupArgs = <<>>
    /\ pending = {}
    /\ calls = <<>>
    /\ result = NotReturned

InitFind ==
    /\ Idle
    /\ pc = "find"
    /\ tree \in ForestsUpTo(MaxNodes, MaxNodes, FindUrls, {})
    /\ values \in UNION {SeqsOfLen(FindValues, n) : n \in 1..MaxPathLen}
    /\ found = Undefined
    /\ categoryMap = EmptyMap

FindCategoryInTree ==
    /\ pc = "find"
    /\ found' = findCategoryInTree(tree, values, 0)
    /\ pc' = "found"
    /\ UNCHANGED <<args, isVtex, url, settled, pageType, fetched, lookupArgs,
                   pending, calls, result, tree, values, categoryMap>>

NextFind == FindCategoryInTree

SpecFind == InitFind /\ [][NextFind]_vars

(***************************************************************************)
(* Specification of buildCategoryMap as a one-step machine                 *)
(***************************************************************************)
IndexUrls == {<<"/", "a">>, <<"/", "b">>}

InitIndex ==
    /\ Idle
    /\ pc = "index"
    /\ tree \in ForestsUpTo(MaxNodes, MaxNodes, IndexUrls, 1..MaxId)
    /\ values = <<>>
    /\ found = Undefined
    /\ categoryMap = EmptyMap

BuildCategoryMap ==
    /\ pc = "index"
    /\ categoryMap' = buildCategoryMap(tree)
    /\ pc' = "indexed"
    /\ UNCHANGED <<args, isVtex, url, settled, pageType, fetched, lookupArgs,
                   pending, calls, result, tree, values, found>>

NextIndex == BuildCategoryMap

SpecIndex == InitIndex /\ [][NextIndex]_vars

(***************************************************************************)
(* Vocabulary of the properties                                            *)
(***************************************************************************)
TrustedLabels == {"Department", "Category", "SubCategory"}

HasCall(op) == \E i \in DOMAIN calls : calls[i].op = op

CallIndexes(op) == {i \in DOMAIN calls : calls[i].op = op}

HasSegment(a) == \E f \in DOMAIN a : a[f] # <<>>

Classified == settled.state = "resolved" /\ settled.value # Null

Unclassified ==
    \/ settled.state = "rejected"
    \/ settled.state = "resolved" /\ settled.value = Null

UntrustedClassification == Classified /\ settled.value.pageType \notin TrustedLabels

TrustedClassification == Classified /\ settled.value.pageType \in TrustedLabels

\* what getIdFromTree returns for a, given the tree its fetch resolved with
LookupByTree(a, t) ==
    IF "department" \in DOMAIN a /\ a.department # <<>>
    THEN getIdFromTree_found(a, t)
    ELSE Null

(***************************************************************************)
(* Properties of searchContextGetCategory                                  *)
(***************************************************************************)
\* C1: in classification mode with a path segment present, a classification
\* carrying a trusted label makes the call return that classification's id,
\* and search.categories is never called.
C1_TrustedShortCircuit ==
    (isVtex /\ HasSegment(args) /\ TrustedClassification)
        => /\ pc = "done"
           /\ result = [id |-> settled.value.id]
           /\ ~HasCall("categories")
           /\ fetched = Unsettled

C1_Witness ==
    /\ isVtex
    /\ pc = "done"
    /\ Classified
    /\ settled.value.pageType = "SubCategory"
    /\ result = [id |-> settled.value.id]

\* C2: in classification mode, after a classification with an untrusted label
\* the call returns what getIdFromTree returns for the original args, and the
\* id of the untrusted classification is not what is returned.
C2_UntrustedFallsBackToTree ==
    (isVtex /\ UntrustedClassification)
        => /\ lookupArgs = <<args>>
           /\ pc \in {"categories", "done", "threw"}
           /\ pc = "done" =>
                /\ result = (IF fetched.state = "resolved"
                             THEN LookupByTree(args, fetched.value)
                             ELSE Null)
                /\ result # [id |-> settled.value.id]

C2_Witness ==
    /\ isVtex
    /\ pc = "done"
    /\ UntrustedClassification
    /\ settled.value.pageType = "FullText"
    /\ fetched.state = "resolved"
    /\ result # Null

\* C3 (as claimed): in classification mode, a successful classification with
\* an untrusted label emits a diagnostic carrying the args and the path.
C3_UntrustedIsLogged ==
    (isVtex /\ UntrustedClassification)
        => \E i \in DOMAIN calls :
              /\ calls[i].op = "logger.info"
              /\ calls[i].args = args
              /\ calls[i].url = url

\* C3 (amended): in classification mode the diagnostic, carrying the args and
\* the constructed path, is emitted exactly when the classification call
\* threw or returned null, once, and before search.categories is called; a
\* classification with an untrusted label emits nothing.
C3_UnclassifiedIsLogged ==
    (isVtex /\ settled # Unsettled)
        => /\ Unclassified <=> HasCall("logger.info")
           /\ \A i \in CallIndexes("logger.info") :
                /\ calls[i].args = args
                /\ calls[i].url = url
                /\ \A j \in CallIndexes("categories") : i < j
                /\ \A j \in CallIndexes("pageType") : j < i /\ calls[j].url = calls[i].url
           /\ Cardinality(CallIndexes("logger.info")) <= 1

C3_Witness ==
    /\ isVtex
    /\ settled.state = "rejected"
    /\ HasCall("logger.info")
    /\ HasCall("categories")
    /\ pc = "done"

\* C4: the call ends in an error exactly when its search.categories call
\* failed, and then with that very error; a classification call that throws
\* or returns null never ends the call in an error and leads to getIdFromTree.
C4_OnlyTreeFetchFails ==
    /\ pc = "threw" <=> fetched.state = "rejected"
    /\ pc = "threw" => result = [threw |-> fetched.error]
    /\ fetched.state = "rejected" => HasCall("categories")
    /\ (isVtex /\ Unclassified)
          => /\ lookupArgs = <<args>>
             /\ pageType = Null
             /\ (pc = "threw" => fetched.state = "rejected")

C4_Witness ==
    /\ isVtex
    /\ settled.state = "rejected"
    /\ fetched.state = "rejected"
    /\ pc = "threw"
    /\ settled.error # fetched.error

\* C5: the two external calls are never outstanding together; in
\* classification mode search.categories is issued only after search.pageType
\* has settled with a failure, null or an untrusted label; in generic mode
\* search.pageType is never called.
C5_CallsAreSequential ==
    /\ Cardinality(pending) <= 1
    /\ Cardinality(CallIndexes("pageType")) <= 1
    /\ Cardinality(CallIndexes("categories")) <= 1
    /\ ~isVtex => (~HasCall("pageType") /\ settled = Unsettled)
    /\ (isVtex /\ HasCall("categories"))
          => /\ Unclassified \/ UntrustedClassification
             /\ "pageType" \notin pending
             /\ \A i \in CallIndexes("pageType") :
                  \A j \in CallIndexes("categories") : i < j
             /\ HasCall("pageType")

C5_Witness ==
    /\ isVtex
    /\ pc = "categories"
    /\ pending = {"categories"}
    /\ UntrustedClassification
    /\ settled.value.pageType = "NotFound"

\* C6: in classification mode with no department, category or subcategory the
\* call returns null and makes no external call and no diagnostic.
C6_EmptyArgsShortCircuit ==
    (isVtex /\ ~HasSegment(args))
        => /\ pc \in {"start", "done"}
           /\ pc = "done" => result = Null
           /\ calls = <<>>
           /\ pending = {}
           /\ settled = Unsettled
           /\ fetched = Unsettled

C6_Witness ==
    /\ isVtex
    /\ ~HasSegment(args)
    /\ "department" \in DOMAIN args
    /\ pc = "done"
    /\ result = Null

(***************************************************************************)
(* Properties of getIdFromTree                                             *)
(***************************************************************************)
LookedUp == pc = "done" /\ fetched.state = "resolved"

Requested(a, f) == f \in DOMAIN a /\ a[f] # <<>>

\* the URL ends with '/' + either normalized form, compared without case
EndsWithSlugIgnoringCase(u, name) ==
    \/ endsWith(toLower(u), <<"/">> \o toLower(searchSlugify(name)))
    \/ endsWith(toLower(u), <<"/">> \o toLower(Slugify(name)))

\* C8 (as claimed): with only a department requested, the call returns the id
\* of the first top-level node whose URL ends, case-insensitively, with '/'
\* followed by the search-style or the generic-style slug of args.department.
C8_DepartmentIgnoringCase ==
    (LookedUp /\ ~Requested(lookupArgs[1], "category")
              /\ ~Requested(lookupArgs[1], "subcategory"))
        => LET a == lookupArgs[1]
               t == fetched.value
               hits == {i \in 1..Len(t) : EndsWithSlugIgnoringCase(t[i].url, a.department)}
           IN  result = (IF hits = {} THEN Null
                         ELSE [id |-> t[CHOOSE i \in hits : \A j \in hits : i <= j].id])

\* identifiers a lookup may return: the node at the deepest requested level of
\* a parent-child chain, the subcategory being looked for only under a
\* matched category
ChainIds(a, t) ==
    LET deps == {i \in 1..Len(t) : compareGenericSlug(a, "department", t[i].url)}
    IN  IF ~Requested(a, "category")
        THEN {t[i].id : i \in deps}
        ELSE UNION {
               LET cs == t[i].children
                   cats == {j \in 1..Len(cs) : compareGenericSlug(a, "category", cs[j].url)}
               IN  IF ~Requested(a, "subcategory")
                   THEN {cs[j].id : j \in cats}
                   ELSE UNION {
                          LET ss == cs[j].children
                          IN  {ss[k].id : k \in {k \in 1..Len(ss) :
                                  compareGenericSlug(a, "subcategory", ss[k].url)}}
                          : j \in cats }
               : i \in deps }

\* C10 (as claimed): a non-null id is the id of the node that ends an unbroken
\* department / category / subcategory chain; args.subcategory is never
\* matched against the children of the department.
C10_UnbrokenChain ==
    (LookedUp /\ result # Null)
        => \E i \in ChainIds(lookupArgs[1], fetched.value) : result = [id |-> i]

(***************************************************************************)
(* Properties of findCategoryInTree                                        *)
(***************************************************************************)
RECURSIVE LastPart(_)
LastPart(u) ==
    IF u = <<>> THEN <<>>
    ELSE IF u[Len(u)] = "/" THEN <<>>
    ELSE Append(LastPart(SubSeq(u, 1, Len(u) - 1)), u[Len(u)])

SameSlug(u, v) == toLower(LastPart(u)) = toLower(v)

\* p, a sequence of sibling positions, traces vals from the roots of t
RECURSIVE IsChain(_, _, _)
IsChain(t, vals, p) ==
    IF p = <<>> THEN vals = <<>>
    ELSE /\ vals # <<>>
         /\ p[1] <= Len(t)
         /\ SameSlug(t[p[1]].url, vals[1])
         /\ IsChain(t[p[1]].children, Tail(vals), Tail(p))

\* every node on the chain is the first of its siblings to carry its slug
RECURSIVE IsFirstChain(_, _, _)
IsFirstChain(t, vals, p) ==
    IF p = <<>> THEN TRUE
    ELSE /\ \A i \in 1..(p[1] - 1) : ~SameSlug(t[i].url, vals[1])
         /\ IsFirstChain(t[p[1]].children, Tail(vals), Tail(p))

RECURSIVE NodeAt(_, _)
NodeAt(t, p) ==
    IF Len(p) = 1 THEN t[p[1]] ELSE NodeAt(t[p[1]].children, Tail(p))

Chains(t, vals) ==
    {p \in SeqsOfLen(1..MaxNodes, Len(vals)) : IsChain(t, vals, p)}

\* C7 (as claimed): for a path that traces a chain of slugs in the tree, the
\* search returns the node that ends the chain, also when an earlier sibling
\* shares a slug with a node on the chain.
C7_FindsEveryChain ==
    pc = "found" => \A p \in Chains(tree, values) : found = NodeAt(tree, p)

\* C7 (amended): for a path that traces a chain of slugs in the tree on which
\* every node is the first of its siblings to carry its slug (compared
\* without case), the search returns the node that ends the chain.
C7_FindsFirstChain ==
    pc = "found" =>
        \A p \in Chains(tree, values) :
            IsFirstChain(tree, values, p) => found = NodeAt(tree, p)

C7_Witness ==
    /\ pc = "found"
    /\ values = <<"a", "B">>
    /\ Len(tree) = 2
    /\ tree[1].url = <<"/", "a", "/", "b">>
    /\ tree[2].url = <<"/", "A">>
    /\ found # Null
    /\ found = NodeAt(tree, <<2, 1>>)

(***************************************************************************)
(* Properties of buildCategoryMap                                          *)
(***************************************************************************)
RECURSIVE Preorder(_)
Preorder(t) ==
    IF t = <<>> THEN <<>>
    ELSE <<Head(t)>> \o Preorder(Head(t).children) \o Preorder(Tail(t))

\* C9: the keys of the map are exactly the identifiers of the nodes of the
\* tree, each key maps to the node with that identifier that comes last in
\* depth-first pre-order, and the empty tree gives the empty map.
C9_IndexIsLastVisited ==
    pc = "indexed" =>
        LET order == Preorder(tree)
        IN  /\ DOMAIN categoryMap = {order[i].id : i \in DOMAIN order}
            /\ \A k \in DOMAIN categoryMap :
                 LET at == {i \in DOMAIN order : order[i].id = k}
                 IN  categoryMap[k] = order[Max(at)]
            /\ tree = <<>> => categoryMap = EmptyMap

C9_Witness ==
    /\ pc = "indexed"
    /\ Len(tree) = 2
    /\ Len(tree[1].children) = 1
    /\ tree[1].children[1].id = tree[1].id
    /\ tree[2].id # tree[1].id
    /\ categoryMap[tree[1].id] = tree[1].children[1]
    /\ categoryMap[tree[2].id] = tree[2]

====
